---------------------------- MODULE Spec2Model ----------------------------
(***************************************************************************)
(* A model of _apidoc_generator.py: the extraction of apiDocJS comment     *)
(* blocks from source files, their indexing by (unique key, version), the  *)
(* merge with the previously written aggregate file, the sorted rewrite of *)
(* that file and the update of the version field of apidoc.json.           *)
(*                                                                         *)
(* Text is modelled down to the tokens the program looks at.  A string     *)
(* that the program compares or splits (a name, a group, a version) is a   *)
(* sequence of character codes.  A line of a file is a sequence of tokens, *)
(* a token being a record [k, v]: k is the kind of the token and v its     *)
(* characters.  A text (a file, a comment) is a sequence of lines.         *)
(*    k = "open"     the marker /**                                        *)
(*    k = "close"    the marker */                                         *)
(*    k = "api"      the marker "@api " (with its trailing blank)          *)
(*    k = "name"     the tag @apiName followed by the token v              *)
(*    k = "group"    the tag @apiGroup followed by the token v             *)
(*    k = "version"  the tag @apiVersion followed by v, v in [0-9.]+       *)
(*    k = "text"     any other text, v tells one text from another         *)
(*    k = "ws"       leading or trailing white space                       *)
(*    k = "header"   the generated header line, v its timestamp            *)
(***************************************************************************)
EXTENDS Naturals, Sequences, FiniteSets

VARIABLES
    \* ---- extract_api_comments, one line at a time (SpecExtract) ----
    lines,              \* the lines of the file being read
    pos,                \* number of lines read so far
    in_comment,         \* the flag in_comment
    current_comment,    \* the list current_comment
    api_comments,       \* the list api_comments
    \* ---- extract_api_details on two comments (SpecDetails) ----
    comment1, comment2, \* two normalized comments
    details1, details2, \* what extract_api_details returned for them
    \* ---- the file system ----
    srcExists,          \* whether the source directory exists
    files,              \* file name -> lines, the source directory
    aggregate,          \* the file _apidoc.js
    metadata,           \* the file apidoc.json
    jsWrites,           \* writes of _apidoc.js in the current run
    jsonWrites,         \* writes of apidoc.json in the current run
    \* ---- main ----
    pc,                 \* the position in main
    runNo,              \* which run this is
    source_files,       \* the list find_source_files returned
    scanned,            \* number of source files read so far
    all_api_comments,   \* the list all_api_comments
    current_api_info,   \* the mapping current_api_info
    existing_api_info,  \* the mapping existing_api_info
    merged_api_info,    \* the mapping merged_api_info of generate_new_content
    all_comments,       \* the sorted list generate_new_content returned
    updates,            \* the counter updates
    additions,          \* the counter additions
    json_updated,       \* what update_apidoc_json returned
    failure,            \* where the run raised: "none", "sort" or "max"
    aggBefore,          \* _apidoc.js as the current run found it
    metaBefore,         \* apidoc.json as the current run found it
    prev                \* what the previous run enumerated and wrote

vars == <<lines, pos, in_comment, current_comment, api_comments,
          comment1, comment2, details1, details2,
          srcExists, files, aggregate, metadata, jsWrites, jsonWrites,
          pc, runNo, source_files, scanned, all_api_comments,
          current_api_info, existing_api_info, merged_api_info,
          all_comments, updates, additions, json_updated, failure, aggBefore, metaBefore, prev>>

extractVars == <<lines, pos, in_comment, current_comment, api_comments>>
detailVars == <<comment1, comment2, details1, details2>>
fsVars == <<srcExists, files, aggregate, metadata, jsWrites, jsonWrites>>
mainVars == <<pc, runNo, source_files, scanned, all_api_comments,
              current_api_info, existing_api_info, merged_api_info,
              all_comments, updates, additions, json_updated, failure, aggBefore, metaBefore, prev>>

---------------------------------------------------------------------------
(* Bounds of the model. *)

\* Longest file read line by line in SpecExtract.
MaxLines == 4
\* Most entries of each mapping handed to generate_new_content in SpecMerge.
MaxEntries == 3
\* Number of consecutive runs of main on the same source tree in Spec.
MaxRuns == 2

---------------------------------------------------------------------------
(* Strings. *)

\* The code of '.', on which a version is split.
Dot == 46
\* The code of '0'.
Zero == 48
\* The separator "__" between name and group in the key.
Sep == <<95, 95>>
\* "Unnamed"
Unnamed == <<85, 110, 110, 97, 109, 101, 100>>
\* "Ungrouped"
Ungrouped == <<85, 110, 103, 114, 111, 117, 112, 101, 100>>
\* None, and any value that is false in a condition.
None == <<>>
\* _apidoc.js: whether it exists, and its lines.
AbsentJs == [exists |-> FALSE, content |-> <<>>]
JsFile(content) == [exists |-> TRUE, content |-> content]
\* apidoc.json: whether it exists, its "version" and its other fields.
AbsentJson == [exists |-> FALSE, version |-> <<>>, other |-> ""]
JsonFile(version, other) == [exists |-> TRUE, version |-> version, other |-> other]

\* s < t for two sequences of numbers, as Python compares two strings by code
\* point and two tuples of ints: the first difference decides, a proper
\* prefix is smaller.
RECURSIVE SeqLess(_, _)
SeqLess(s, t) ==
    IF t = <<>> THEN FALSE
    ELSE IF s = <<>> THEN TRUE
    ELSE IF Head(s) # Head(t) THEN Head(s) < Head(t)
    ELSE SeqLess(Tail(s), Tail(t))

Tok(k, v) == [k |-> k, v |-> v]
Open == Tok("open", <<>>)
Close == Tok("close", <<>>)
Api == Tok("api", <<>>)
Ws == Tok("ws", <<>>)
Text(n) == Tok("text", <<n>>)

HasKind(line, k) == \E i \in 1..Len(line) : line[i].k = k

RECURSIVE Flatten(_)
Flatten(text) ==
    IF text = <<>> THEN <<>> ELSE Head(text) \o Flatten(Tail(text))

\* str.strip() of one line: leading and trailing white space removed.
RECURSIVE StripLeft(_)
StripLeft(line) ==
    IF line # <<>> /\ Head(line).k = "ws" THEN StripLeft(Tail(line)) ELSE line

RECURSIVE StripRight(_)
StripRight(line) ==
    IF line # <<>> /\ line[Len(line)].k = "ws"
    THEN StripRight(SubSeq(line, 1, Len(line) - 1))
    ELSE line

StripLine(line) == StripRight(StripLeft(line))

\* str.strip() of the joined lines: the empty lines at both ends go.
RECURSIVE DropEmptyHead(_)
DropEmptyHead(text) ==
    IF text # <<>> /\ Head(text) = <<>> THEN DropEmptyHead(Tail(text)) ELSE text

RECURSIVE DropEmptyTail(_)
DropEmptyTail(text) ==
    IF text # <<>> /\ text[Len(text)] = <<>>
    THEN DropEmptyTail(SubSeq(text, 1, Len(text) - 1))
    ELSE text

normalize_comment(comment) ==
    DropEmptyTail(DropEmptyHead([i \in 1..Len(comment) |-> StripLine(comment[i])]))

---------------------------------------------------------------------------
(* extract_api_comments *)

\* The state of the loop before the first line.
ExtractInit == [in_comment |-> FALSE, current_comment |-> <<>>, api_comments |-> <<>>]

\* The branch of the loop body a line takes.
LineBranch(st, line) ==
    IF HasKind(line, "open") /\ ~st.in_comment THEN "open"
    ELSE IF HasKind(line, "close") /\ st.in_comment THEN "close"
    ELSE IF st.in_comment THEN "inside"
    ELSE "outside"

\* Whether a finished block is kept: '@api ' in comment_text.
IsApiComment(comment_text) == HasKind(Flatten(comment_text), "api")

\* One iteration of the loop over the lines of the file.
ExtractStep(st, line) ==
    LET b == LineBranch(st, line) IN
    IF b = "open" THEN
        [st EXCEPT !.in_comment = TRUE, !.current_comment = <<line>>]
    ELSE IF b = "close" THEN
        LET comment_text == Append(st.current_comment, line) IN
        [in_comment |-> FALSE,
         current_comment |-> <<>>,
         api_comments |->
            IF IsApiComment(comment_text)
            THEN Append(st.api_comments, normalize_comment(comment_text))
            ELSE st.api_comments]
    ELSE IF b = "inside" THEN
        [st EXCEPT !.current_comment = Append(st.current_comment, line)]
    ELSE st

RECURSIVE ExtractLoop(_, _)
ExtractLoop(st, ls) ==
    IF ls = <<>> THEN st ELSE ExtractLoop(ExtractStep(st, Head(ls)), Tail(ls))

\* The list extract_api_comments returns for a file with these lines.
extract_api_comments(ls) == ExtractLoop(ExtractInit, ls).api_comments

---------------------------------------------------------------------------
(* extract_api_details *)

\* re.search(tag + r'\s+(...)', comment): the characters of the first token
\* of that kind in the comment, or None.
RECURSIVE FirstOfKind(_, _)
FirstOfKind(toks, k) ==
    IF toks = <<>> THEN None
    ELSE IF Head(toks).k = k THEN Head(toks).v
    ELSE FirstOfKind(Tail(toks), k)

\* f"{name}__{group}"
UniqueKey(name, group) == name \o Sep \o group

\* The pair (unique_key, version) of a comment; version is None when the
\* comment has no @apiVersion tag.
extract_api_details(comment) ==
    LET toks == Flatten(comment)
        name_match == FirstOfKind(toks, "name")
        group_match == FirstOfKind(toks, "group")
        version_match == FirstOfKind(toks, "version")
        name == IF name_match # None THEN name_match ELSE Unnamed
        group == IF group_match # None THEN group_match ELSE Ungrouped
    IN  [key |-> UniqueKey(name, group), version |-> version_match]

---------------------------------------------------------------------------
(* The mappings unique_key -> version -> comment.  A mapping is the        *)
(* sequence of its entries [key, version, comment] in the order the        *)
(* program inserted them: Python's dict keeps the insertion order, and the *)
(* order of the versions of one key is what the stable sort of             *)
(* generate_new_content leaves between versions of equal rank.             *)

HasEntry(m, k, v) == \E i \in 1..Len(m) : m[i].key = k /\ m[i].version = v

Lookup(m, k, v) ==
    m[CHOOSE i \in 1..Len(m) : m[i].key = k /\ m[i].version = v].comment

\* m[k][v] = c: an entry that exists keeps its place and takes the new
\* comment, a new entry goes last.
DictSet(m, k, v, c) ==
    IF HasEntry(m, k, v)
    THEN [i \in 1..Len(m) |->
            IF m[i].key = k /\ m[i].version = v
            THEN [m[i] EXCEPT !.comment = c] ELSE m[i]]
    ELSE Append(m, [key |-> k, version |-> v, comment |-> c])

\* The (key, version) pairs of a mapping.
Pairs(m) == {<<m[i].key, m[i].version>> : i \in 1..Len(m)}

\* The guard "if unique_key and version" followed by the assignment.
IndexComment(m, comment) ==
    LET d == extract_api_details(comment) IN
    IF d.key # None /\ d.version # None
    THEN DictSet(m, d.key, d.version, comment)
    ELSE m

RECURSIVE IndexAll(_, _)
IndexAll(m, comments) ==
    IF comments = <<>> THEN m
    ELSE IndexAll(IndexComment(m, Head(comments)), Tail(comments))

get_current_api_info(comments) == IndexAll(<<>>, comments)

---------------------------------------------------------------------------
(* load_existing_api_info *)

Nl == Tok("nl", <<>>)

\* The content of a file as one string: every line ends with a line break.
RECURSIVE JoinLines(_)
JoinLines(text) ==
    IF text = <<>> THEN <<>> ELSE Head(text) \o <<Nl>> \o JoinLines(Tail(text))

\* str.splitlines()
RECURSIVE SplitLines(_, _)
SplitLines(toks, cur) ==
    IF toks = <<>> THEN (IF cur = <<>> THEN <<>> ELSE <<cur>>)
    ELSE IF Head(toks).k = "nl" THEN <<cur>> \o SplitLines(Tail(toks), <<>>)
    ELSE SplitLines(Tail(toks), Append(cur, Head(toks)))

\* The least index from `from` on whose token is of kind k, or 0.
FirstIndex(toks, k, from) ==
    IF \E i \in from..Len(toks) : toks[i].k = k
    THEN CHOOSE i \in from..Len(toks) :
            toks[i].k = k /\ \A j \in from..(i - 1) : toks[j].k # k
    ELSE 0

\* re.findall(r'/\*\*[\s\S]*?\*/', content): the matches left to right, each
\* from an open marker to the first close marker after it.
RECURSIVE FindAllBlocks(_)
FindAllBlocks(toks) ==
    LET i == FirstIndex(toks, "open", 1)
        j == IF i = 0 THEN 0 ELSE FirstIndex(toks, "close", i + 1)
    IN  IF i = 0 \/ j = 0 THEN <<>>
        ELSE <<SubSeq(toks, i, j)>> \o FindAllBlocks(SubSeq(toks, j + 1, Len(toks)))

RECURSIVE LoadBlocks(_, _)
LoadBlocks(m, blocks) ==
    IF blocks = <<>> THEN m
    ELSE LoadBlocks(IndexComment(m, normalize_comment(SplitLines(Head(blocks), <<>>))),
                    Tail(blocks))

\* The mapping read back from _apidoc.js; empty when the file is absent.
load_existing_api_info(file) ==
    IF ~file.exists THEN <<>>
    ELSE LoadBlocks(<<>>, FindAllBlocks(JoinLines(file.content)))

---------------------------------------------------------------------------
(* Versions: tuple(map(int, v.split('.'))) *)

\* v.split('.'): the segments between the dots, an empty one included.
RECURSIVE SplitDots(_, _)
SplitDots(v, cur) ==
    IF v = <<>> THEN <<cur>>
    ELSE IF Head(v) = Dot THEN <<cur>> \o SplitDots(Tail(v), <<>>)
    ELSE SplitDots(Tail(v), Append(cur, Head(v)))

\* int(segment) of a segment of digits.
RECURSIVE ToInt(_, _)
ToInt(seg, acc) ==
    IF seg = <<>> THEN acc ELSE ToInt(Tail(seg), 10 * acc + (Head(seg) - Zero))

\* int('') raises ValueError.
IntRaisesLenient(seg) == FALSE
IntRaises(seg) == seg = <<>>

\* Whether the conversion of a version to a tuple of ints raises.
VersionRaises(v) ==
    LET segs == SplitDots(v, <<>>) IN \E i \in 1..Len(segs) : IntRaises(segs[i])

VersionTuple(v) ==
    LET segs == SplitDots(v, <<>>) IN [i \in 1..Len(segs) |-> ToInt(segs[i], 0)]

\* The order of two versions under the sort key, and the same comparing the
\* version strings themselves.
VersionLessAsString(v, w) == SeqLess(v, w)
VersionLess(v, w) == SeqLess(VersionTuple(v), VersionTuple(w))

---------------------------------------------------------------------------
(* generate_new_content *)

\* merged_api_info[unique_key][version] = comment, keeping what is there.
OverlayEntryKeep(m, e) ==
    IF HasEntry(m, e.key, e.version) THEN m
    ELSE DictSet(m, e.key, e.version, e.comment)
\* merged_api_info[unique_key][version] = comment
OverlayEntry(m, e) == DictSet(m, e.key, e.version, e.comment)

\* One of the two loops that fill merged_api_info.  The loops go key by key;
\* the versions of one key are inserted in the order they have here.
RECURSIVE Overlay(_, _)
Overlay(m, src) ==
    IF src = <<>> THEN m ELSE Overlay(OverlayEntry(m, Head(src)), Tail(src))

MergedApiInfo(current, existing) == Overlay(Overlay(<<>>, existing), current)

\* What one entry of current_api_info adds to the counters, without the
\* comparison of the comments.
ChangeOfAnyText(e, existing) ==
    IF HasEntry(existing, e.key, e.version) THEN "update" ELSE "addition"
\* What one entry of current_api_info adds to the counters.
ChangeOf(e, existing) ==
    IF HasEntry(existing, e.key, e.version)
    THEN (IF e.comment # Lookup(existing, e.key, e.version) THEN "update" ELSE "none")
    ELSE "addition"

CountOf(current, existing, what) ==
    Cardinality({i \in 1..Len(current) : ChangeOf(current[i], existing) = what})

\* sorted(merged_api_info.keys())
RECURSIVE SortedKeys(_)
SortedKeys(S) ==
    IF S = {} THEN <<>>
    ELSE LET least == CHOOSE k \in S : \A o \in S \ {k} : SeqLess(k, o)
         IN  <<least>> \o SortedKeys(S \ {least})

\* The entries of one key, in insertion order.
RECURSIVE EntriesOf(_, _)
EntriesOf(m, k) ==
    IF m = <<>> THEN <<>>
    ELSE IF Head(m).key = k THEN <<Head(m)>> \o EntriesOf(Tail(m), k)
    ELSE EntriesOf(Tail(m), k)

\* sorted(..., key=..., reverse=True) is stable: an entry goes before the
\* first entry of strictly smaller version.
RECURSIVE InsertDescending(_, _)
InsertDescending(sorted, e) ==
    IF sorted = <<>> THEN <<e>>
    ELSE IF VersionLess(Head(sorted).version, e.version) THEN <<e>> \o sorted
    ELSE <<Head(sorted)>> \o InsertDescending(Tail(sorted), e)

RECURSIVE SortDescending(_, _)
SortDescending(sorted, es) ==
    IF es = <<>> THEN sorted
    ELSE SortDescending(InsertDescending(sorted, Head(es)), Tail(es))

RECURSIVE CommentsInOrder(_, _)
CommentsInOrder(m, keys) ==
    IF keys = <<>> THEN <<>>
    ELSE LET es == SortDescending(<<>>, EntriesOf(m, Head(keys)))
         IN  [i \in 1..Len(es) |-> es[i].comment] \o CommentsInOrder(m, Tail(keys))

\* The call generate_new_content(current_api_info, existing_api_info): what
\* it returns, or raised when a sort key cannot be computed.
generate_new_content(current, existing) ==
    LET merged == MergedApiInfo(current, existing)
        raised == \E i \in 1..Len(merged) : VersionRaises(merged[i].version)
    IN  [raised |-> raised,
         merged |-> merged,
         all_comments |->
            IF raised THEN <<>>
            ELSE CommentsInOrder(merged, SortedKeys({merged[i].key : i \in 1..Len(merged)})),
         updates |-> CountOf(current, existing, "update"),
         additions |-> CountOf(current, existing, "addition")]

---------------------------------------------------------------------------
(* write_apidoc_js and update_apidoc_json *)

RECURSIVE CommentLines(_)
CommentLines(comments) ==
    IF comments = <<>> THEN <<>>
    ELSE Head(comments) \o <<<<>>>> \o CommentLines(Tail(comments))

\* The lines write_apidoc_js writes: the header line, an empty line, and
\* every comment followed by an empty line.
write_apidoc_js(comments, timestamp) ==
    <<<<Tok("header", <<timestamp>>)>>, <<>>>> \o CommentLines(comments)

\* The versions update_apidoc_json finds in the comments.
RECURSIVE VersionsIn(_)
VersionsIn(comments) ==
    IF comments = <<>> THEN <<>>
    ELSE LET version_match == FirstOfKind(Flatten(Head(comments)), "version")
         IN  (IF version_match # None THEN <<version_match>> ELSE <<>>)
                \o VersionsIn(Tail(comments))

\* max(versions) by the version strings themselves.
LatestVersionAsString(versions) ==
    versions[CHOOSE i \in 1..Len(versions) :
                /\ \A j \in 1..Len(versions) : ~SeqLess(versions[i], versions[j])
                /\ \A j \in 1..(i - 1) : SeqLess(versions[j], versions[i])]
\* max(versions, key=...): the first of the versions no other exceeds.
LatestVersion(versions) ==
    versions[CHOOSE i \in 1..Len(versions) :
                /\ \A j \in 1..Len(versions) : ~VersionLess(versions[i], versions[j])
                /\ \A j \in 1..(i - 1) : VersionLess(versions[j], versions[i])]

\* The call update_apidoc_json(apidoc_dir, all_comments) on the object data
\* of apidoc.json: the object after the call, whether the file was written,
\* what the call returned, and whether it raised.
update_apidoc_json(data, comments) ==
    LET versions == VersionsIn(comments)
        raised == \E i \in 1..Len(versions) : VersionRaises(versions[i])
        latest_version == IF versions # <<>> /\ ~raised
                          THEN LatestVersion(versions) ELSE None
    IN  IF ~data.exists THEN
            [data |-> data, wrote |-> FALSE, returned |-> "None", raised |-> FALSE]
        ELSE IF versions # <<>> /\ raised THEN
            [data |-> data, wrote |-> FALSE, returned |-> "None", raised |-> TRUE]
        ELSE IF latest_version # None /\ data.version # latest_version THEN
            [data |-> [data EXCEPT !.version = latest_version],
             wrote |-> TRUE, returned |-> "True", raised |-> FALSE]
        ELSE
            [data |-> data, wrote |-> FALSE, returned |-> "False", raised |-> FALSE]

---------------------------------------------------------------------------
(* find_source_files *)

\* A file name is <<stem, extension>>.
Extensions == {".cpp", ".c", ".h", ".hpp"}

IsSourceFile(name) == name[2] \in Extensions

\* The names find_source_files returns, as a set.
SourceNames(dir) == {n \in DOMAIN dir : IsSourceFile(n)}

\* The orders in which os.listdir and os.walk may enumerate them.
Orders(S) ==
    {o \in [1..Cardinality(S) -> S] : \A i, j \in 1..Cardinality(S) : o[i] = o[j] => i = j}

\* all_api_comments after the loop of main over the files in this order.
RECURSIVE ScanAll(_, _)
ScanAll(dir, order) ==
    IF order = <<>> THEN <<>>
    ELSE extract_api_comments(dir[Head(order)]) \o ScanAll(dir, Tail(order))

\* "if not all_api_comments", never true.
NoCommentsFoundNever(comments) == FALSE
\* "if not all_api_comments"
NoCommentsFound(comments) == comments = <<>>

---------------------------------------------------------------------------
(* The inputs of the model. *)

NameA == <<65>>                 \* "A"
NameAB == <<65, 66>>            \* "AB"
NameA__B == <<65, 95, 95, 66>>  \* "A__B"
GroupG == <<71>>                \* "G"
GroupC == <<67>>                \* "C"
GroupB__C == <<66, 95, 95, 67>> \* "B__C"
V1_9 == <<49, 46, 57>>          \* "1.9"
V1_10 == <<49, 46, 49, 48>>     \* "1.10"
V01_9 == <<48, 49, 46, 57>>     \* "01.9"
V2_0 == <<50, 46, 48>>          \* "2.0"
V1_ == <<49, 46>>               \* "1."

TagIf(k, v) == IF v = None THEN <<>> ELSE <<Tok(k, v)>>

\* A comment block as it stands in a source file, on three lines:
\*     <pre> /**
\*       @api <body> @apiName <name> @apiGroup <group> @apiVersion <version>
\*       */
\* A tag whose value is None is left out, and so is an empty pre.
SrcBlock(pre, name, group, version, body) ==
    << pre \o <<Open>>,
       <<Ws, Api, Text(body)>> \o TagIf("name", name) \o TagIf("group", group)
            \o TagIf("version", version) \o <<Ws>>,
       <<Ws, Close>> >>

\* The same block on one line, followed by a line of code and by a comment
\* that is no API comment.
OneLineBlock(name, group, version, body) ==
    << <<Open, Api, Text(body)>> \o TagIf("name", name) \o TagIf("group", group)
            \o TagIf("version", version) \o <<Close>>,
       <<Text(8)>>,
       <<Open, Text(9)>>,
       <<Ws, Close>> >>

\* Two blocks in one file, a line of code between them.
TwoBlocks(first, second) == first \o << <<Text(8)>> >> \o second

\* A comment that is no API comment.
PlainComment == << <<Open>>, <<Ws, Text(9)>>, <<Ws, Close>> >>

\* The contents a source file of the tree may have.
Contents ==
    { SrcBlock(<<>>, NameA, GroupG, V1_9, 1),
      SrcBlock(<<>>, NameA, GroupG, V1_9, 2),
      SrcBlock(<<>>, NameA, GroupG, V1_10, 1),
      SrcBlock(<<>>, NameA, GroupG, V01_9, 1),
      SrcBlock(<<>>, NameAB, GroupG, V2_0, 1),
      SrcBlock(<<>>, NameA, GroupG, V1_, 1),
      SrcBlock(<<Text(8)>>, NameA, GroupG, V1_9, 1),
      SrcBlock(<<>>, NameA, GroupG, None, 1),
      OneLineBlock(NameA, GroupG, V1_9, 1),
      TwoBlocks(SrcBlock(<<>>, NameA, GroupG, V1_10, 2),
                SrcBlock(<<>>, NameAB, GroupG, V1_9, 1)),
      PlainComment }

\* The comment of a block, as a run reads and normalizes it.
Normalized(block) == extract_api_comments(block)[1]

\* _apidoc.js before the first run: absent, written by an earlier run, or
\* edited by hand to hold a version that is no tuple of integers.
PriorAggregates ==
    { AbsentJs,
      JsFile(write_apidoc_js(<<Normalized(SrcBlock(<<>>, NameA, GroupG, V1_9, 1))>>, 0)),
      JsFile(write_apidoc_js(<<Normalized(SrcBlock(<<>>, NameA, GroupG, V1_10, 1)),
                               Normalized(SrcBlock(<<>>, NameA, GroupG, V1_9, 2))>>, 0)),
      JsFile(write_apidoc_js(<<Normalized(SrcBlock(<<>>, NameA, GroupG, V1_, 1))>>, 0)) }

\* apidoc.json before the first run: absent, or an object with a version and
\* one more field.
PriorMetadata ==
    { AbsentJson, JsonFile(V1_10, "my-api"), JsonFile(V2_0, "my-api") }

FileA == <<"a", ".cpp">>
FileB == <<"b", ".h">>
FileNotes == <<"notes", ".txt">>

\* The source directory: two source files, and a file find_source_files
\* passes over.
Trees ==
    { [n \in {FileA, FileB, FileNotes} |->
          IF n = FileA THEN a ELSE IF n = FileB THEN b
          ELSE SrcBlock(<<>>, NameAB, GroupG, V1_9, 2)] :
      a \in Contents, b \in Contents }

NoTree == [n \in {} |-> <<>>]

---------------------------------------------------------------------------
(* main *)

ExtractIdle ==
    /\ lines = <<>> /\ pos = 0 /\ in_comment = FALSE
    /\ current_comment = <<>> /\ api_comments = <<>>

\* extract_api_details not called yet.
NoDetails == [key |-> None, version |-> None]

DetailsIdle ==
    /\ comment1 = <<>> /\ comment2 = <<>>
    /\ details1 = NoDetails /\ details2 = NoDetails

NoRun == [wrote |-> FALSE, source_files |-> <<>>, all_comments |-> <<>>]

\* The local variables of main as a run starts.
RunLocalsInit ==
    /\ source_files = <<>> /\ scanned = 0 /\ all_api_comments = <<>>
    /\ current_api_info = <<>> /\ existing_api_info = <<>>
    /\ merged_api_info = <<>> /\ all_comments = <<>>
    /\ updates = 0 /\ additions = 0 /\ json_updated = "None" /\ failure = "none"

\* No run of main: the specifications of the single functions.
MainIdle ==
    /\ srcExists = FALSE /\ files = NoTree
    /\ aggregate = AbsentJs /\ metadata = AbsentJson
    /\ jsWrites = 0 /\ jsonWrites = 0
    /\ runNo = 1
    /\ aggBefore = AbsentJs /\ metaBefore = AbsentJson
    /\ prev = NoRun

Init ==
    /\ ExtractIdle /\ DetailsIdle
    /\ srcExists \in BOOLEAN
    /\ files \in (IF srcExists THEN Trees ELSE {NoTree})
    /\ aggregate \in PriorAggregates
    /\ metadata \in PriorMetadata
    /\ jsWrites = 0 /\ jsonWrites = 0
    /\ pc = "start" /\ runNo = 1
    /\ RunLocalsInit
    /\ aggBefore = aggregate /\ metaBefore = metadata
    /\ prev = NoRun

idleVars == <<lines, pos, in_comment, current_comment, api_comments,
              comment1, comment2, details1, details2>>

\* main, lines 189-198: the source directory is looked for.
Start ==
    /\ pc = "start"
    /\ pc' = IF srcExists THEN "find" ELSE "aborted"
    /\ UNCHANGED <<idleVars, fsVars, runNo, source_files, scanned,
                   all_api_comments, current_api_info, existing_api_info,
                   merged_api_info, all_comments, updates, additions,
                   json_updated, failure, aggBefore, metaBefore, prev>>

\* source_files = find_source_files(src_dir, args.recursive): the source
\* files of the directory in the order the file system enumerates them.
FindSourceFiles ==
    /\ pc = "find"
    /\ \E order \in Orders(SourceNames(files)) : source_files' = order
    /\ pc' = "scan"
    /\ UNCHANGED <<idleVars, fsVars, runNo, scanned,
                   all_api_comments, current_api_info, existing_api_info,
                   merged_api_info, all_comments, updates, additions,
                   json_updated, failure, aggBefore, metaBefore, prev>>

\* One iteration of "for file_path in source_files".
ScanFile ==
    /\ pc = "scan"
    /\ scanned < Len(source_files)
    /\ all_api_comments' =
          all_api_comments \o extract_api_comments(files[source_files[scanned + 1]])
    /\ scanned' = scanned + 1
    /\ UNCHANGED <<idleVars, fsVars, pc, runNo, source_files,
                   current_api_info, existing_api_info,
                   merged_api_info, all_comments, updates, additions,
                   json_updated, failure, aggBefore, metaBefore, prev>>

\* "if not all_api_comments: ... return" after the loop.
CheckComments ==
    /\ pc = "scan"
    /\ scanned = Len(source_files)
    /\ pc' = IF NoCommentsFound(all_api_comments) THEN "aborted" ELSE "current"
    /\ UNCHANGED <<idleVars, fsVars, runNo, source_files, scanned,
                   all_api_comments, current_api_info, existing_api_info,
                   merged_api_info, all_comments, updates, additions,
                   json_updated, failure, aggBefore, metaBefore, prev>>

\* current_api_info = get_current_api_info(all_api_comments)
GetCurrent ==
    /\ pc = "current"
    /\ current_api_info' = get_current_api_info(all_api_comments)
    /\ pc' = "load"
    /\ UNCHANGED <<idleVars, fsVars, runNo, source_files, scanned,
                   all_api_comments, existing_api_info,
                   merged_api_info, all_comments, updates, additions,
                   json_updated, failure, aggBefore, metaBefore, prev>>

\* existing_api_info = load_existing_api_info(apidoc_js_path)
LoadExisting ==
    /\ pc = "load"
    /\ existing_api_info' = load_existing_api_info(aggregate)
    /\ pc' = "generate"
    /\ UNCHANGED <<idleVars, fsVars, runNo, source_files, scanned,
                   all_api_comments, current_api_info,
                   merged_api_info, all_comments, updates, additions,
                   json_updated, failure, aggBefore, metaBefore, prev>>

\* all_comments, updates, additions = generate_new_content(...); a ValueError
\* of the sort ends the run.
Generate ==
    /\ pc = "generate"
    /\ LET r == generate_new_content(current_api_info, existing_api_info) IN
          /\ merged_api_info' = r.merged
          /\ IF r.raised
             THEN /\ pc' = "crashed"
                  /\ failure' = "sort"
                  /\ UNCHANGED <<all_comments, updates, additions>>
             ELSE /\ pc' = "write"
                  /\ all_comments' = r.all_comments
                  /\ updates' = r.updates
                  /\ additions' = r.additions
                  /\ UNCHANGED failure
    /\ UNCHANGED <<idleVars, fsVars, runNo, source_files, scanned,
                   all_api_comments, current_api_info, existing_api_info,
                   json_updated, aggBefore, metaBefore, prev>>

\* write_apidoc_js(apidoc_js_path, all_comments)
Write ==
    /\ pc = "write"
    /\ aggregate' = JsFile(write_apidoc_js(all_comments, runNo))
    /\ jsWrites' = jsWrites + 1
    /\ pc' = "update"
    /\ UNCHANGED <<idleVars, srcExists, files, metadata, jsonWrites,
                   runNo, source_files, scanned,
                   all_api_comments, current_api_info, existing_api_info,
                   merged_api_info, all_comments, updates, additions,
                   json_updated, failure, aggBefore, metaBefore, prev>>

\* json_updated = update_apidoc_json(apidoc_dir, all_comments), and the
\* summary; a ValueError of max ends the run.
UpdateJson ==
    /\ pc = "update"
    /\ LET r == update_apidoc_json(metadata, all_comments) IN
          /\ metadata' = r.data
          /\ jsonWrites' = IF r.wrote THEN jsonWrites + 1 ELSE jsonWrites
          /\ json_updated' = r.returned
          /\ pc' = IF r.raised THEN "crashed" ELSE "done"
          /\ failure' = IF r.raised THEN "max" ELSE failure
    /\ UNCHANGED <<idleVars, srcExists, files, aggregate, jsWrites,
                   runNo, source_files, scanned,
                   all_api_comments, current_api_info, existing_api_info,
                   merged_api_info, all_comments, updates, additions,
                   aggBefore, metaBefore, prev>>

\* The program is run again on the source tree as it is.
Rerun ==
    /\ pc \in {"done", "aborted", "crashed"}
    /\ runNo < MaxRuns
    /\ runNo' = runNo + 1
    /\ pc' = "start"
    /\ prev' = [wrote |-> pc = "done",
                source_files |-> source_files,
                all_comments |-> all_comments]
    /\ aggBefore' = aggregate
    /\ metaBefore' = metadata
    /\ jsWrites' = 0 /\ jsonWrites' = 0
    /\ source_files' = <<>> /\ scanned' = 0 /\ all_api_comments' = <<>>
    /\ current_api_info' = <<>> /\ existing_api_info' = <<>>
    /\ merged_api_info' = <<>> /\ all_comments' = <<>>
    /\ updates' = 0 /\ additions' = 0 /\ json_updated' = "None"
    /\ failure' = "none"
    /\ UNCHANGED <<idleVars, srcExists, files, aggregate, metadata>>

Next ==
    \/ Start
    \/ FindSourceFiles
    \/ ScanFile
    \/ CheckComments
    \/ GetCurrent
    \/ LoadExisting
    \/ Generate
    \/ Write
    \/ UpdateJson
    \/ Rerun

Spec == Init /\ [][Next]_vars

---------------------------------------------------------------------------
(* SpecExtract: extract_api_comments reads one file, line by line. *)

\* The lines a file of SpecExtract is made of.
LineKinds ==
    { <<Open>>,
      <<Ws, Close>>,
      <<Ws, Api, Text(1), Ws>>,
      <<Text(8)>>,
      <<Open, Api, Text(1), Close>>,
      <<Ws, Open, Api, Text(2)>> }

SeqsUpTo(S, n) == UNION {[1..k -> S] : k \in 0..n}

InitExtract ==
    /\ lines \in SeqsUpTo(LineKinds, MaxLines)
    /\ pos = 0
    /\ in_comment = FALSE /\ current_comment = <<>> /\ api_comments = <<>>
    /\ DetailsIdle /\ MainIdle /\ RunLocalsInit /\ pc = "extract"

LoopState ==
    [in_comment |-> in_comment, current_comment |-> current_comment,
     api_comments |-> api_comments]

\* The body of the loop on the next line.
ReadLine ==
    /\ LET st == ExtractStep(LoopState, lines[pos + 1]) IN
          /\ in_comment' = st.in_comment
          /\ current_comment' = st.current_comment
          /\ api_comments' = st.api_comments
    /\ pos' = pos + 1
    /\ UNCHANGED <<lines, detailVars, fsVars, mainVars>>

\* if '/**' in line and not in_comment
OpenLine ==
    /\ pos < Len(lines)
    /\ LineBranch(LoopState, lines[pos + 1]) = "open"
    /\ ReadLine

\* elif '*/' in line and in_comment
CloseLine ==
    /\ pos < Len(lines)
    /\ LineBranch(LoopState, lines[pos + 1]) = "close"
    /\ ReadLine

\* elif in_comment
InsideLine ==
    /\ pos < Len(lines)
    /\ LineBranch(LoopState, lines[pos + 1]) = "inside"
    /\ ReadLine

\* a line outside any block: no branch is taken
OutsideLine ==
    /\ pos < Len(lines)
    /\ LineBranch(LoopState, lines[pos + 1]) = "outside"
    /\ ReadLine

NextExtract ==
    \/ OpenLine
    \/ CloseLine
    \/ InsideLine
    \/ OutsideLine

SpecExtract == InitExtract /\ [][NextExtract]_vars

---------------------------------------------------------------------------
(* SpecDetails: extract_api_details on two comments. *)

\* A normalized comment with the tags given; None leaves a tag out.
TaggedComment(name, group, version) ==
    << <<Open>>,
       <<Api, Text(1)>> \o TagIf("name", name) \o TagIf("group", group)
            \o TagIf("version", version),
       <<Close>> >>

DetailComments ==
    { TaggedComment(n, g, v) :
        n \in {None, NameA, NameA__B},
        g \in {None, GroupC, GroupB__C},
        v \in {None, V1_9, V2_0} }

InitDetails ==
    /\ comment1 \in DetailComments
    /\ comment2 \in DetailComments
    /\ details1 = NoDetails /\ details2 = NoDetails
    /\ ExtractIdle /\ MainIdle /\ RunLocalsInit /\ pc = "details"

\* unique_key, version = extract_api_details(comment), for both comments.
ExtractDetails ==
    /\ details1 = NoDetails
    /\ details1' = extract_api_details(comment1)
    /\ details2' = extract_api_details(comment2)
    /\ UNCHANGED <<comment1, comment2, extractVars, fsVars, mainVars>>

NextDetails == ExtractDetails

SpecDetails == InitDetails /\ [][NextDetails]_vars

---------------------------------------------------------------------------
(* SpecMerge: generate_new_content on two mappings. *)

\* The comments the mappings of SpecMerge are built from: one pair with two
\* texts, versions that a string comparison misorders, two versions of the
\* same rank, and two keys.
MergeComments ==
    { Normalized(SrcBlock(<<>>, NameA, GroupG, V1_9, 1)),
      Normalized(SrcBlock(<<>>, NameA, GroupG, V1_9, 2)),
      Normalized(SrcBlock(<<>>, NameA, GroupG, V1_10, 1)),
      Normalized(SrcBlock(<<>>, NameA, GroupG, V01_9, 1)),
      Normalized(SrcBlock(<<>>, NameAB, GroupG, V1_9, 1)),
      Normalized(SrcBlock(<<>>, NameAB, GroupG, V1_10, 1)) }

\* The mappings built, as the program builds them, from at most MaxEntries
\* comments.
MergeMappings ==
    { get_current_api_info(cs) : cs \in SeqsUpTo(MergeComments, MaxEntries) }

InitMerge ==
    /\ current_api_info \in MergeMappings
    /\ existing_api_info \in MergeMappings
    /\ pc = "generate"
    /\ source_files = <<>> /\ scanned = 0 /\ all_api_comments = <<>>
    /\ merged_api_info = <<>> /\ all_comments = <<>>
    /\ updates = 0 /\ additions = 0 /\ json_updated = "None" /\ failure = "none"
    /\ ExtractIdle /\ DetailsIdle /\ MainIdle

NextMerge == Generate

SpecMerge == InitMerge /\ [][NextMerge]_vars

---------------------------------------------------------------------------
(* What the claims speak of, stated without the operators of the program   *)
(* that decide them.                                                       *)

\* The comments a mapping holds for a (key, version) pair.
TextsOf(m, p) ==
    {m[i].comment : i \in {j \in 1..Len(m) : m[j].key = p[1] /\ m[j].version = p[2]}}

\* The name and the group of a comment, with their defaults.
NameOf(comment) ==
    LET n == FirstOfKind(Flatten(comment), "name") IN IF n = None THEN Unnamed ELSE n

GroupOf(comment) ==
    LET n == FirstOfKind(Flatten(comment), "group") IN IF n = None THEN Ungrouped ELSE n

VersionOf(comment) == FirstOfKind(Flatten(comment), "version")

\* v < w as tuples of integers.
NumericLess(v, w) == SeqLess(VersionTuple(v), VersionTuple(w))

\* A version with an empty segment: a dot first, last, or followed by a dot.
Malformed(v) ==
    \/ v[1] = Dot
    \/ v[Len(v)] = Dot
    \/ \E i \in 1..(Len(v) - 1) : v[i] = Dot /\ v[i + 1] = Dot

HasMalformed(m) == \E i \in 1..Len(m) : Malformed(m[i].version)

\* The versions of the blocks of all_comments.
WrittenVersions ==
    {VersionOf(all_comments[i]) : i \in 1..Len(all_comments)} \ {None}

\* No source file of the tree holds a qualifying comment block.
NoQualifyingBlock ==
    \A n \in SourceNames(files) : extract_api_comments(files[n]) = <<>>

FilesUntouched ==
    /\ jsWrites = 0 /\ jsonWrites = 0
    /\ aggregate = aggBefore /\ metadata = metaBefore

---------------------------------------------------------------------------
(* The claims. *)

\* C1: a run that follows a completed run on the unchanged source tree,
\* enumerated in the same order, and loads the aggregate that run wrote,
\* reports 0 additions and 0 updates and writes the same sequence of blocks.
C1_RoundTripIdempotent ==
    (pc = "done" /\ runNo > 1 /\ prev.wrote /\ prev.source_files = source_files)
        => /\ additions = 0
           /\ updates = 0
           /\ all_comments = prev.all_comments

\* C2: the merged mapping has exactly the (key, version) pairs of the
\* existing and of the current mapping, one entry per pair, with the text of
\* the current mapping where it has the pair and of the existing mapping
\* otherwise; the list returned holds the texts of the merged mapping.
C2_OverlayPrecedence ==
    pc = "write" =>
        /\ Pairs(merged_api_info) = Pairs(existing_api_info) \cup Pairs(current_api_info)
        /\ Len(merged_api_info) = Cardinality(Pairs(merged_api_info))
        /\ \A p \in Pairs(merged_api_info) :
              TextsOf(merged_api_info, p) =
                 IF p \in Pairs(current_api_info)
                 THEN TextsOf(current_api_info, p)
                 ELSE TextsOf(existing_api_info, p)
        /\ Len(all_comments) = Len(merged_api_info)
        /\ {all_comments[i] : i \in 1..Len(all_comments)} =
              {merged_api_info[i].comment : i \in 1..Len(merged_api_info)}

\* C2, its case: a pair of both mappings with different texts, and a pair of
\* the existing mapping alone, have been merged.
C2_Witness ==
    /\ pc = "write"
    /\ \E p \in Pairs(current_api_info) \cap Pairs(existing_api_info) :
          TextsOf(current_api_info, p) # TextsOf(existing_api_info, p)
    /\ Pairs(existing_api_info) \ Pairs(current_api_info) # {}

\* C3: additions is the number of pairs of the current mapping absent from
\* the existing one, updates the number of its pairs present in the existing
\* one with a different text; a pair with the same text counts as neither.
C3_CounterCorrectness ==
    pc = "write" =>
        /\ additions = Cardinality(Pairs(current_api_info) \ Pairs(existing_api_info))
        /\ updates = Cardinality(
              {p \in Pairs(current_api_info) \cap Pairs(existing_api_info) :
                  TextsOf(current_api_info, p) # TextsOf(existing_api_info, p)})
        /\ updates + additions <= Cardinality(Pairs(current_api_info))

\* C3, its case: of three pairs of the current mapping, one was counted as
\* an update, one as an addition, and one, its text the same in the existing
\* mapping, was not counted.
C3_Witness ==
    /\ pc = "write"
    /\ Len(current_api_info) = 3
    /\ updates = 1
    /\ additions = 1
    /\ \E p \in Pairs(current_api_info) \cap Pairs(existing_api_info) :
          TextsOf(current_api_info, p) = TextsOf(existing_api_info, p)

\* C4 as claimed: the blocks are sorted by (name, group), name first, then
\* group, ascending, and within one identity by version descending under
\* numeric tuple comparison.
C4_SortedByNameThenGroup ==
    pc = "write" =>
        \A i, j \in 1..Len(all_comments) :
            i < j =>
                LET a == all_comments[i]
                    b == all_comments[j]
                IN  \/ SeqLess(NameOf(a), NameOf(b))
                    \/ NameOf(a) = NameOf(b) /\ SeqLess(GroupOf(a), GroupOf(b))
                    \/ /\ NameOf(a) = NameOf(b)
                       /\ GroupOf(a) = GroupOf(b)
                       /\ ~NumericLess(VersionOf(a), VersionOf(b))

\* C4 as amended: the blocks are sorted by the key string name__group
\* ascending, compared character by character, and within one key by
\* version descending under numeric tuple comparison.
C4_SortedByKeyString ==
    pc = "write" =>
        \A i, j \in 1..Len(all_comments) :
            i < j =>
                LET a == all_comments[i]
                    b == all_comments[j]
                    ka == NameOf(a) \o Sep \o GroupOf(a)
                    kb == NameOf(b) \o Sep \o GroupOf(b)
                IN  \/ SeqLess(ka, kb)
                    \/ ka = kb /\ ~NumericLess(VersionOf(a), VersionOf(b))

\* C4, its case: blocks of two keys were written, 1.10 before 1.9 in one of
\* them.
C4_Witness ==
    /\ pc = "write"
    /\ \E i, j \in 1..Len(all_comments) :
          /\ i < j
          /\ NameOf(all_comments[i]) = NameOf(all_comments[j])
          /\ VersionOf(all_comments[i]) = V1_10
          /\ VersionOf(all_comments[j]) = V1_9
    /\ \E i, j \in 1..Len(all_comments) :
          NameOf(all_comments[i]) # NameOf(all_comments[j])

\* C5: after update_apidoc_json, when apidoc.json exists and a block with a
\* version was written, its version is a version written that none exceeds
\* numerically; the file was written, and True returned, exactly when the
\* stored version differed from it; its other fields are as before; an
\* absent file stays absent and nothing is written.
C5_MetadataSync ==
    pc = "done" =>
        /\ ~metaBefore.exists => (metadata = metaBefore /\ jsonWrites = 0)
        /\ (metaBefore.exists /\ WrittenVersions # {}) =>
              /\ metadata.exists
              /\ metadata.version \in WrittenVersions
              /\ \A v \in WrittenVersions : ~NumericLess(metadata.version, v)
              /\ metadata.other = metaBefore.other
              /\ (jsonWrites = 1) <=> (metaBefore.version # metadata.version)
              /\ (jsonWrites = 0) <=> (metaBefore.version = metadata.version)
              /\ (json_updated = "True") <=> (jsonWrites = 1)

\* C5, its case: blocks of several versions were written and apidoc.json
\* was rewritten with the greatest of them.
C5_Witness ==
    /\ pc = "done"
    /\ metaBefore.exists
    /\ Cardinality(WrittenVersions) >= 2
    /\ jsonWrites = 1
    /\ metadata.version # metaBefore.version

\* C6: two comments get the same key exactly when their names and their
\* groups, with the defaults, are equal.
C6_IdentityIsNameGroupPair ==
    details1 # NoDetails =>
        ((details1.key = details2.key) <=>
            (NameOf(comment1) = NameOf(comment2) /\ GroupOf(comment1) = GroupOf(comment2)))

\* C7: the blocks and the counters of a run are those of the same run with
\* the source files enumerated in any other order.
C7_OrderIndependent ==
    pc = "write" =>
        \A order \in Orders(SourceNames(files)) :
            LET r == generate_new_content(get_current_api_info(ScanAll(files, order)),
                                          load_existing_api_info(aggBefore))
            IN  /\ ~r.raised
                /\ r.all_comments = all_comments
                /\ r.updates = updates
                /\ r.additions = additions

\* C8: a run without source directory, or whose source files hold no
\* qualifying block, writes neither file; _apidoc.js is written only in a
\* run that found a qualifying block.
C8_CleanEarlyExit ==
    /\ (~srcExists \/ NoQualifyingBlock) => FilesUntouched
    /\ jsWrites > 0 => (srcExists /\ ~NoQualifyingBlock)
    /\ pc = "aborted" => FilesUntouched

\* C8, its case: a run over source files without a qualifying block has
\* ended early, both files being there.
C8_Witness ==
    /\ pc = "aborted"
    /\ srcExists
    /\ scanned = Len(source_files) /\ scanned > 0
    /\ aggregate.exists /\ metadata.exists

\* The blocks of a file as C9 delimits them: from a line with the open
\* marker, met while no block is open, through the first line at or after it
\* with the close marker; kept when they hold the documentation marker.
RECURSIVE ClaimedBlocks(_)
ClaimedBlocks(ls) ==
    IF ls = <<>> THEN <<>>
    ELSE IF ~HasKind(Head(ls), "open") THEN ClaimedBlocks(Tail(ls))
    ELSE IF \A j \in 1..Len(ls) : ~HasKind(ls[j], "close") THEN <<>>
    ELSE LET j == CHOOSE k \in 1..Len(ls) :
                     HasKind(ls[k], "close") /\ \A h \in 1..(k - 1) : ~HasKind(ls[h], "close")
             block == SubSeq(ls, 1, j)
         IN  (IF HasKind(Flatten(block), "api") THEN <<normalize_comment(block)>> ELSE <<>>)
                \o ClaimedBlocks(SubSeq(ls, j + 1, Len(ls)))

\* C9: the blocks extract_api_comments returns are those from each line
\* with the open marker, met while no block is open, through the first line
\* at or after it with the close marker, kept when they hold the
\* documentation marker; a block open at the end of the file is not returned.
C9_BlockDelimiting ==
    (pc = "extract" /\ pos = Len(lines)) => api_comments = ClaimedBlocks(lines)

\* C10: a run whose current or loaded mapping holds a malformed version
\* raises in the sort of generate_new_content and leaves both files as they
\* were; the max of update_apidoc_json never raises.
C10_MalformedVersionAborts ==
    /\ pc \in {"write", "update", "done"} =>
          (~HasMalformed(current_api_info) /\ ~HasMalformed(existing_api_info))
    /\ pc = "crashed" =>
          /\ failure = "sort"
          /\ HasMalformed(current_api_info) \/ HasMalformed(existing_api_info)
          /\ FilesUntouched
    /\ failure # "max"

\* C10, its case: a run has raised on a malformed version that only the
\* aggregate loaded holds, both files being there.
C10_Witness ==
    /\ pc = "crashed"
    /\ HasMalformed(existing_api_info)
    /\ ~HasMalformed(current_api_info)
    /\ aggregate.exists /\ metadata.exists

===========================================================================
